---- MODULE Spec2Model ----
(***************************************************************************)
(* l0ttie: playback-mode engine of a Lottie frei0r source plugin.          *)
(*                                                                         *)
(* Two realisations of the four playback modes are modelled:               *)
(*   - src/src/mode.rs  Mode::next_frame(time, duration, loop)             *)
(*       the stateless time-sampling function (next_frame_time);           *)
(*   - src/src/lib.rs   Mode::next_frame(current_frame, frame_step,        *)
(*       direction, start_frame, end_frame, loop)                          *)
(*       the frame-stepping transition function (next_frame_step).         *)
(*                                                                         *)
(* f32 quantities are counted on an integer grid (a fixed number of grid   *)
(* units per frame / per second).  Both functions are homogeneous in their *)
(* numeric arguments, so the grid covers every rational ratio time :       *)
(* duration whose denominator the bounds admit.                            *)
(***************************************************************************)
EXTENDS Integers, Sequences, FiniteSets, TLC

VARIABLES
    \* ---- stateless time sampling (src/src/mode.rs) ----
    time,            \* requested time handed to next_frame (f64)
    duration,        \* animation duration (f32)
    loop_flag,       \* loop_animation argument
    result,          \* sampled mode -> value returned for (time, duration, loop_flag)
    \* ---- frame stepping (src/src/lib.rs) ----
    mode,            \* L0ttiePlugin.mode
    loop_animation,  \* L0ttiePlugin.loop_animation
    frame_number,    \* L0ttiePlugin.frame_number
    direction,       \* L0ttiePlugin.direction
    frame_step,      \* L0ttiePlugin.frame_step
    start_frame,     \* start_frame argument of next_frame
    end_frame,       \* end_frame argument of next_frame
    prev,            \* (frame, direction) the last advance was called with
    \* ---- plugin life cycle (src/src/lib.rs) ----
    initialized,     \* L0ttiePlugin.initialized
    loaded,          \* L0ttiePlugin.loaded
    layout_fit,      \* L0ttiePlugin.layout.fit
    recompute_layout,\* L0ttiePlugin.recompute_layout
    ticks,           \* number of update_source calls made
    ticklog,         \* calls made by the last update_source, with their outcome
    init_attempts,   \* number of initialize calls made
    init_errors,     \* number of "Failed to initialize plugin" reports
    computed_fit,    \* layout.fit at the last successful compute_layout
    fit_set,         \* the fit setter ran since the last successful compute_layout
    last_param       \* the last string parameter the host set

sampleVars == <<time, duration, loop_flag, result>>
stepVars == <<mode, loop_animation, frame_number, direction, frame_step,
              start_frame, end_frame, prev>>
pluginVars == <<initialized, loaded, layout_fit, recompute_layout, ticks,
                ticklog, init_attempts, init_errors, computed_fit, fit_set,
                last_param>>
vars == <<sampleVars, stepVars, pluginVars>>

----------------------------------------------------------------------------
\* Bounds of the model.

MaxDuration == 4
MaxTime == 13
MaxFrame == 4
MaxStep == 3
Overshoot == 3

Modes == {"Forward", "Reverse", "Bounce", "ReverseBounce"}
Directions == {"Forward", "Reverse"}

----------------------------------------------------------------------------
\* f32 arithmetic on the integer grid.

Abs(x) == IF x < 0 THEN -x ELSE x

\* Width of the f32 significand: integers of magnitude up to 2^24 are exact.
F32Digits == 24

RECURSIVE Pow2(_)
Pow2(n) == IF n = 0 THEN 1 ELSE 2 * Pow2(n - 1)

\* The spacing of f32 values around the magnitude x.
RECURSIVE Quantum(_, _)
Quantum(x, q) == IF x \div q < Pow2(F32Digits) THEN q ELSE Quantum(x, 2 * q)

\* x >= 0 rounded to the nearest multiple of q, ties to even.
RoundTo(x, q) ==
    LET k == x \div q
        r == x - k * q
    IN  IF 2 * r < q THEN k * q
        ELSE IF 2 * r > q THEN (k + 1) * q
        ELSE IF k % 2 = 0 THEN k * q ELSE (k + 1) * q

\* `time as f32`: f64 -> f32 rounds to a 24-bit significand.
AsF32(x) ==
    IF x < 0 THEN -RoundTo(-x, Quantum(-x, 1)) ELSE RoundTo(x, Quantum(x, 1))

\* Rust's `%` on floats (fmod): truncated remainder, sign of the dividend.
\* b /= 0 (the only caller is guarded by duration > 0).
FRem(a, b) ==
    IF a < 0 THEN -((-a) % Abs(b)) ELSE a % Abs(b)

FMin(a, b) == IF a <= b THEN a ELSE b
FMax(a, b) == IF a >= b THEN a ELSE b

----------------------------------------------------------------------------
\* src/src/mode.rs: the stateless time-sampling Mode::next_frame, one
\* operator per match arm (t is `time` after the cast to f32).

\* Variant: without loop the time is returned unclamped.
ForwardArm_NoClamp(t, d, l) ==
    IF l THEN FRem(t, d) ELSE t

\* Variant: the loop wraps at the bounce cycle 2d instead of d.
ForwardArm_DoublePeriod(t, d, l) ==
    IF l THEN FRem(t, 2 * d) ELSE FMin(t, d)

ForwardArm(t, d, l) ==
    IF l THEN FRem(t, d) ELSE FMin(t, d)

\* Variant: without loop the descent is not floored at 0.
ReverseArm_NoFloor(t, d, l) ==
    IF l THEN d - FRem(t, d) ELSE d - t

\* Variant: the loop takes the remainder of d - t, so multiples of d give 0.
ReverseArm_WrapsToZero(t, d, l) ==
    IF l THEN FRem(d - t, d) ELSE FMax(d - t, 0)

ReverseArm(t, d, l) ==
    IF l THEN d - FRem(t, d) ELSE FMax(d - t, 0)

\* Variant: without loop the arm keeps descending past the full cycle.
BounceArm_NoRest(t, d, l) ==
    LET cycle_duration == 2 * d
    IN  IF l
        THEN LET cycle_time == FRem(t, cycle_duration)
             IN  IF cycle_time <= d THEN cycle_time
                 ELSE cycle_duration - cycle_time
        ELSE IF t <= d THEN t
        ELSE cycle_duration - t

\* Variant: the descending leg is computed as t - d.
BounceArm_Asym(t, d, l) ==
    LET cycle_duration == 2 * d
    IN  IF l
        THEN LET cycle_time == FRem(t, cycle_duration)
             IN  IF cycle_time <= d THEN cycle_time
                 ELSE cycle_duration - cycle_time
        ELSE IF t <= d THEN t
        ELSE IF t <= cycle_duration THEN t - d
        ELSE 0

BounceArm(t, d, l) ==
    LET cycle_duration == 2 * d
    IN  IF l
        THEN LET cycle_time == FRem(t, cycle_duration)
             IN  IF cycle_time <= d THEN cycle_time
                 ELSE cycle_duration - cycle_time
        ELSE IF t <= d THEN t
        ELSE IF t <= cycle_duration THEN cycle_duration - t
        ELSE 0

\* Variant: past the full cycle the arm rests at 0 instead of d.
ReverseBounceArm_RestsAtZero(t, d, l) ==
    LET cycle_duration == 2 * d
    IN  IF l
        THEN LET cycle_time == FRem(t, cycle_duration)
             IN  IF cycle_time <= d THEN d - cycle_time
                 ELSE cycle_time - d
        ELSE IF t <= d THEN d - t
        ELSE IF t <= cycle_duration THEN t - d
        ELSE 0

ReverseBounceArm(t, d, l) ==
    LET cycle_duration == 2 * d
    IN  IF l
        THEN LET cycle_time == FRem(t, cycle_duration)
             IN  IF cycle_time <= d THEN d - cycle_time
                 ELSE cycle_time - d
        ELSE IF t <= d THEN d - t
        ELSE IF t <= cycle_duration THEN t - d
        ELSE d

MatchMode(self, t, d, l) ==
    CASE self = "Forward" -> ForwardArm(t, d, l)
      [] self = "Reverse" -> ReverseArm(t, d, l)
      [] self = "Bounce" -> BounceArm(t, d, l)
      [] self = "ReverseBounce" -> ReverseBounceArm(t, d, l)

\* Variant: only a zero duration is caught by the early return.
next_frame_time_ZeroOnly(self, tm, d, l) ==
    IF d = 0 THEN 0 ELSE MatchMode(self, AsF32(tm), d, l)

next_frame_time(self, tm, d, l) ==
    IF d <= 0 THEN 0 ELSE MatchMode(self, AsF32(tm), d, l)

----------------------------------------------------------------------------
\* Sampling: the host asks for the position of each mode at one
\* (time, duration, loop) triple.

TimeRange == (-MaxTime)..MaxTime
DurationRange == (-1)..MaxDuration

Fits == {"Contain", "Fill", "Cover", "FitWidth", "FitHeight", "None"}

\* No compute_layout has succeeded yet.
NotComputed == "NotComputed"

\* No string parameter has been set yet.
NoParam == [name |-> "", value |-> "", old |-> "", echo |-> FALSE]

\* The plugin fields as L0ttiePlugin::new leaves them, nothing called yet.
PluginNew ==
    /\ initialized = FALSE
    /\ loaded = FALSE
    /\ layout_fit = "Contain"
    /\ recompute_layout = TRUE
    /\ ticks = 0
    /\ ticklog = << >>
    /\ init_attempts = 0
    /\ init_errors = 0
    /\ computed_fit = NotComputed
    /\ fit_set = FALSE
    /\ last_param = NoParam

\* No advance has been made yet.
NotCalled == [called |-> FALSE, frame |-> 0, direction |-> "Forward"]

StepIdle ==
    /\ mode = "Forward"
    /\ loop_animation = FALSE
    /\ frame_number = 0
    /\ direction = "Forward"
    /\ frame_step = 0
    /\ start_frame = 0
    /\ end_frame = 0
    /\ prev = NotCalled

SampleInit ==
    /\ PluginNew
    /\ time \in TimeRange
    /\ duration \in DurationRange
    /\ loop_flag \in BOOLEAN
    /\ result = [m \in {} |-> 0]
    /\ StepIdle

Sample(m) ==
    /\ m \notin DOMAIN result
    /\ result' = [x \in DOMAIN result \cup {m} |->
                     IF x = m THEN next_frame_time(m, time, duration, loop_flag)
                     ELSE result[x]]
    /\ UNCHANGED <<time, duration, loop_flag, stepVars, pluginVars>>

SampleNext == \E m \in Modes : Sample(m)

SampleSpec == SampleInit /\ [][SampleNext]_vars

Sampled(m) == m \in DOMAIN result

----------------------------------------------------------------------------
\* src/src/lib.rs: the frame-stepping Mode::next_frame.  It returns the
\* pair <<frame, direction>>; one operator per match arm, each taking the
\* candidate next_frame computed from the input direction.

StepCandidate(current_frame, step, dir) ==
    IF dir = "Forward" THEN current_frame + step ELSE current_frame - step

\* Variant: the loop and clamp targets are exchanged.
StepForward_Swapped(next_frame, dir, sf, ef, l) ==
    IF next_frame >= ef
    THEN IF l THEN <<ef, dir>> ELSE <<sf, dir>>
    ELSE <<next_frame, dir>>

StepForward(next_frame, dir, sf, ef, l) ==
    IF next_frame >= ef
    THEN IF l THEN <<sf, dir>> ELSE <<ef, dir>>
    ELSE <<next_frame, dir>>

StepReverse(next_frame, dir, sf, ef, l) ==
    IF next_frame <= sf
    THEN IF l THEN <<ef, dir>> ELSE <<sf, dir>>
    ELSE <<next_frame, dir>>

\* Variant: with loop the Forward boundary restarts at start_frame.
StepBounce_LoopsAtEnd(next_frame, dir, sf, ef, l) ==
    IF dir = "Forward"
    THEN IF next_frame >= ef
         THEN IF l THEN <<sf, "Forward">> ELSE <<ef, "Reverse">>
         ELSE <<next_frame, dir>>
    ELSE IF next_frame <= sf
         THEN IF l THEN <<sf, "Forward">> ELSE <<sf, dir>>
         ELSE <<next_frame, dir>>

\* Variant: the Reverse boundary turns Forward whatever the loop flag.
StepBounce_NeverParks(next_frame, dir, sf, ef, l) ==
    IF dir = "Forward"
    THEN IF next_frame >= ef
         THEN <<ef, "Reverse">>
         ELSE <<next_frame, dir>>
    ELSE IF next_frame <= sf
         THEN <<sf, "Forward">>
         ELSE <<next_frame, dir>>

StepBounce(next_frame, dir, sf, ef, l) ==
    IF dir = "Forward"
    THEN IF next_frame >= ef
         THEN <<ef, "Reverse">>
         ELSE <<next_frame, dir>>
    ELSE IF next_frame <= sf
         THEN IF l THEN <<sf, "Forward">> ELSE <<sf, dir>>
         ELSE <<next_frame, dir>>

\* Variant: without loop the Reverse boundary parks at start_frame.
StepReverseBounce_ParksAtStart(next_frame, dir, sf, ef, l) ==
    IF dir = "Reverse"
    THEN IF next_frame <= sf
         THEN IF l THEN <<sf, "Forward">> ELSE <<sf, dir>>
         ELSE <<next_frame, dir>>
    ELSE IF next_frame >= ef
         THEN IF l THEN <<ef, "Reverse">> ELSE <<ef, dir>>
         ELSE <<next_frame, dir>>

StepReverseBounce(next_frame, dir, sf, ef, l) ==
    IF dir = "Reverse"
    THEN IF next_frame <= sf
         THEN <<sf, "Forward">>
         ELSE <<next_frame, dir>>
    ELSE IF next_frame >= ef
         THEN IF l THEN <<ef, "Reverse">> ELSE <<ef, dir>>
         ELSE <<next_frame, dir>>

next_frame_step(self, current_frame, step, dir, sf, ef, l) ==
    LET next_frame == StepCandidate(current_frame, step, dir)
    IN  CASE self = "Forward" -> StepForward(next_frame, dir, sf, ef, l)
          [] self = "Reverse" -> StepReverse(next_frame, dir, sf, ef, l)
          [] self = "Bounce" -> StepBounce(next_frame, dir, sf, ef, l)
          [] self = "ReverseBounce" -> StepReverseBounce(next_frame, dir, sf, ef, l)

----------------------------------------------------------------------------
\* Stepping: one advance per render tick,
\*   (frame_number, direction) = mode.next_frame(frame_number, frame_step,
\*                                               direction, start, end, loop).

SampleIdle ==
    /\ time = 0
    /\ duration = 0
    /\ loop_flag = FALSE
    /\ result = [m \in {} |-> 0]

StepRange == (-1)..MaxStep
StartRange == 0..1

\* Advance from any input state: every mode, either direction, frames
\* inside and around [start_frame, end_frame].
StepInit ==
    /\ PluginNew
    /\ SampleIdle
    /\ mode \in Modes
    /\ loop_animation \in BOOLEAN
    /\ frame_step \in StepRange
    /\ start_frame \in StartRange
    /\ end_frame \in start_frame..MaxFrame
    /\ frame_number \in (start_frame - 1)..(end_frame + 1)
    /\ direction \in Directions
    /\ prev = NotCalled

\* Advance from the state L0ttiePlugin::new leaves: the first frame, Forward,
\* with the positive frame_step of a loaded animation.
RunInit ==
    /\ PluginNew
    /\ SampleIdle
    /\ mode \in Modes
    /\ loop_animation \in BOOLEAN
    /\ frame_step \in 1..MaxStep
    /\ start_frame \in StartRange
    /\ end_frame \in start_frame..MaxFrame
    /\ frame_number = start_frame
    /\ direction = "Forward"
    /\ prev = NotCalled

\* The frames the model follows: a run that leaves this window is cut off.
InWindow(f) == start_frame - Overshoot <= f /\ f <= end_frame + Overshoot

Advance ==
    /\ InWindow(frame_number)
    /\ LET new == next_frame_step(mode, frame_number, frame_step, direction,
                                   start_frame, end_frame, loop_animation)
       IN  /\ frame_number' = new[1]
           /\ direction' = new[2]
    /\ prev' = [called |-> TRUE, frame |-> frame_number, direction |-> direction]
    /\ UNCHANGED <<mode, loop_animation, frame_step, start_frame, end_frame,
                   sampleVars, pluginVars>>

StepNext == Advance

StepSpec == StepInit /\ [][StepNext]_vars

\* The host renders tick after tick: an enabled advance is eventually made.
RunSpec == RunInit /\ [][StepNext]_vars /\ WF_vars(Advance)

\* The candidate frame of the advance that produced the current state.
PrevCandidate == StepCandidate(prev.frame, frame_step, prev.direction)

----------------------------------------------------------------------------
\* The two disciplines side by side: the frame-stepping state is advanced
\* once per tick from the state L0ttiePlugin::new leaves, and the stateless
\* function is sampled at the time that tick stands for (n ticks of
\* frame_step each), over the same animation: start_frame = 0,
\* end_frame = duration, frame_step a divisor of it.

Divides(a, b) == b % a = 0

AgreeInit ==
    /\ PluginNew
    /\ mode \in Modes
    /\ loop_animation \in BOOLEAN
    /\ start_frame = 0
    /\ end_frame \in 1..MaxFrame
    /\ frame_step \in {x \in 1..MaxStep : Divides(x, end_frame)}
    /\ frame_number = start_frame
    /\ direction = "Forward"
    /\ prev = NotCalled
    /\ time = 0
    /\ duration = end_frame
    /\ loop_flag = loop_animation
    /\ result = [m \in {mode} |-> next_frame_time(m, time, duration, loop_flag)]

LockStep ==
    /\ time + frame_step <= MaxTime
    /\ InWindow(frame_number)
    /\ LET new == next_frame_step(mode, frame_number, frame_step, direction,
                                   start_frame, end_frame, loop_animation)
       IN  /\ frame_number' = new[1]
           /\ direction' = new[2]
    /\ prev' = [called |-> TRUE, frame |-> frame_number, direction |-> direction]
    /\ time' = time + frame_step
    /\ result' = [m \in {mode} |->
                     next_frame_time(m, time', duration, loop_flag)]
    /\ UNCHANGED <<mode, loop_animation, frame_step, start_frame, end_frame,
                   duration, loop_flag, pluginVars>>

AgreeNext == LockStep

AgreeSpec == AgreeInit /\ [][AgreeNext]_vars

----------------------------------------------------------------------------
\* src/src/mode.rs, src/src/fit.rs (and their copies in src/src/lib.rs):
\* parameter names and the conversions between names and variants.

MODE_FORWARD == "forward"
MODE_REVERSE == "reverse"
MODE_BOUNCE == "bounce"
MODE_REVERSE_BOUNCE == "reverse-bounce"

\* Variant: the last comparison is made against MODE_BOUNCE again.
Mode_from_BounceTwice(value) ==
    IF value = MODE_FORWARD THEN "Forward"
    ELSE IF value = MODE_REVERSE THEN "Reverse"
    ELSE IF value = MODE_BOUNCE THEN "Bounce"
    ELSE IF value = MODE_BOUNCE THEN "ReverseBounce"
    ELSE "Forward"

\* impl From<&CStr> for Mode
Mode_from(value) ==
    IF value = MODE_FORWARD THEN "Forward"
    ELSE IF value = MODE_REVERSE THEN "Reverse"
    ELSE IF value = MODE_BOUNCE THEN "Bounce"
    ELSE IF value = MODE_REVERSE_BOUNCE THEN "ReverseBounce"
    ELSE "Forward"

\* Variant: ReverseBounce is named like Bounce.
Mode_into_SharedName(m) ==
    CASE m = "Forward" -> MODE_FORWARD
      [] m = "Reverse" -> MODE_REVERSE
      [] m = "Bounce" -> MODE_BOUNCE
      [] m = "ReverseBounce" -> MODE_BOUNCE

\* impl From<Mode> for &'static CStr
Mode_into(m) ==
    CASE m = "Forward" -> MODE_FORWARD
      [] m = "Reverse" -> MODE_REVERSE
      [] m = "Bounce" -> MODE_BOUNCE
      [] m = "ReverseBounce" -> MODE_REVERSE_BOUNCE

FIT_CONTAIN == "contain"
FIT_FILL == "fill"
FIT_COVER == "cover"
FIT_WIDTH == "fit-width"
FIT_HEIGHT == "fit-height"
FIT_NONE == "none"

\* impl From<&CStr> for Fit
Fit_from(value) ==
    IF value = FIT_CONTAIN THEN "Contain"
    ELSE IF value = FIT_FILL THEN "Fill"
    ELSE IF value = FIT_COVER THEN "Cover"
    ELSE IF value = FIT_WIDTH THEN "FitWidth"
    ELSE IF value = FIT_HEIGHT THEN "FitHeight"
    ELSE IF value = FIT_NONE THEN "None"
    ELSE "Contain"

\* impl From<Fit> for &'static CStr
Fit_into(f) ==
    CASE f = "Contain" -> FIT_CONTAIN
      [] f = "Fill" -> FIT_FILL
      [] f = "Cover" -> FIT_COVER
      [] f = "FitWidth" -> FIT_WIDTH
      [] f = "FitHeight" -> FIT_HEIGHT
      [] f = "None" -> FIT_NONE

\* PARAMS setters: what each one assigns.
set_mode(value) == mode' = Mode_from(value)

set_loop(value) == loop_animation' = value

set_fit(value) ==
    /\ layout_fit' = Fit_from(value)
    /\ recompute_layout' = TRUE

\* PARAMS getters.
get_mode == Mode_into(mode)

get_fit == Fit_into(layout_fit)

----------------------------------------------------------------------------
\* The parameter interface alone: the host sets the mode and fit parameters
\* to arbitrary strings, or reads a parameter and writes the value back.

\* Strings a host may hand over: the ten names, and others.
CStrs ==
    { MODE_FORWARD, MODE_REVERSE, MODE_BOUNCE, MODE_REVERSE_BOUNCE,
      FIT_CONTAIN, FIT_FILL, FIT_COVER, FIT_WIDTH, FIT_HEIGHT, FIT_NONE,
      "", "unknown", "Forward", "reverse_bounce", "reverse-", "fit_width",
      "contain " }

ParseInit ==
    /\ SampleIdle
    /\ StepIdle
    /\ PluginNew

paramKept == <<sampleVars, loop_animation, frame_number, direction, frame_step,
               start_frame, end_frame, prev, initialized, loaded, ticks,
               ticklog, init_attempts, init_errors, computed_fit>>

SetModeParam(value) ==
    /\ set_mode(value)
    /\ last_param' = [name |-> "mode", value |-> value, old |-> mode,
                      echo |-> FALSE]
    /\ UNCHANGED <<paramKept, layout_fit, recompute_layout, fit_set>>

SetFitParam(value) ==
    /\ set_fit(value)
    /\ fit_set' = TRUE
    /\ last_param' = [name |-> "fit", value |-> value, old |-> layout_fit,
                      echo |-> FALSE]
    /\ UNCHANGED <<paramKept, mode>>

\* The host reads the mode parameter and sets it to what it read.
EchoModeParam ==
    /\ set_mode(get_mode)
    /\ last_param' = [name |-> "mode", value |-> get_mode, old |-> mode,
                      echo |-> TRUE]
    /\ UNCHANGED <<paramKept, layout_fit, recompute_layout, fit_set>>

\* The host reads the fit parameter and sets it to what it read.
EchoFitParam ==
    /\ set_fit(get_fit)
    /\ fit_set' = TRUE
    /\ last_param' = [name |-> "fit", value |-> get_fit, old |-> layout_fit,
                      echo |-> TRUE]
    /\ UNCHANGED <<paramKept, mode>>

ParseNext ==
    \/ \E value \in CStrs : SetModeParam(value)
    \/ \E value \in CStrs : SetFitParam(value)
    \/ EchoModeParam
    \/ EchoFitParam

ParseSpec == ParseInit /\ [][ParseNext]_vars

----------------------------------------------------------------------------
\* src/src/lib.rs: update_source, initialize and render.  The calls into the
\* animation and the renderer are external: each may succeed or fail, and
\* the place of the first failure is the outcome of the call.

MaxTicks == 3
MaxRate == 2
MaxTotal == 2

\* Where initialize stops: the failing `?` of lines 124-145, or "ok".
InitOutcomes ==
    {"to_str", "read_to_string", "load_data", "get_total_frame",
     "get_duration", "push", "ok"}

\* Where render stops: the failing `?` of lines 166-193, or "ok".
RenderOutcomes ==
    {"set_target", "update", "draw", "sync", "get_total_frame", "ok"}

RendererOps == {"set_target", "update", "draw", "sync"}

\* frame_step = player_fps / video_fps as initialize computes it.
Rates == 1..MaxRate

Call(op, ok) == [op |-> op, ok |-> ok]

\* Variant: the flag is set once initialization has succeeded.
initialize_initialized_OnSuccess(io) == io = "ok"

\* initialize, line 123: the flag is set before anything can fail.
initialize_initialized(io) == TRUE

\* initialize, line 146.
initialize_loaded(io, ld) == IF io = "ok" THEN TRUE ELSE ld

\* initialize, line 141: reached once both queries have succeeded.
initialize_frame_step(io, rate, step) ==
    IF io \in {"push", "ok"} THEN rate ELSE step

\* Variant: a failed draw is ignored like a failed set_frame.
render_tail_DrawIgnored(fail) ==
    IF fail = "update" THEN <<Call("update", FALSE)>>
    ELSE IF fail = "draw"
    THEN <<Call("update", TRUE), Call("draw", FALSE), Call("sync", TRUE),
           Call("get_total_frame", TRUE)>>
    ELSE IF fail = "sync"
    THEN <<Call("update", TRUE), Call("draw", TRUE), Call("sync", FALSE)>>
    ELSE <<Call("update", TRUE), Call("draw", TRUE), Call("sync", TRUE),
           Call("get_total_frame", fail /= "get_total_frame")>>

\* render, lines 184-193: update()?, draw()?, sync()?, get_total_frame()?.
render_tail(fail) ==
    IF fail = "update" THEN <<Call("update", FALSE)>>
    ELSE IF fail = "draw"
    THEN <<Call("update", TRUE), Call("draw", FALSE)>>
    ELSE IF fail = "sync"
    THEN <<Call("update", TRUE), Call("draw", TRUE), Call("sync", FALSE)>>
    ELSE <<Call("update", TRUE), Call("draw", TRUE), Call("sync", TRUE),
           Call("get_total_frame", fail /= "get_total_frame")>>

\* Variant: the layout is computed on every tick.
render_computes_Always(recompute) == TRUE

\* render, line 174.
render_computes(recompute) == recompute

\* render, lines 166-193: the calls one render makes, in order.  A failed
\* compute_layout (line 176) does not end it; the result of set_frame is
\* discarded (line 183), so the call is recorded without telling it apart.
render_calls(recompute, fail, layout_ok) ==
    IF fail = "set_target" THEN <<Call("set_target", FALSE)>>
    ELSE <<Call("set_target", TRUE)>>
         \o (IF render_computes(recompute)
             THEN <<Call("compute_layout", layout_ok)>> ELSE << >>)
         \o <<Call("set_frame", TRUE)>>
         \o render_tail(fail)

\* render, lines 174-180: the flag is cleared by a successful compute_layout.
render_recompute(recompute, fail, layout_ok) ==
    IF fail /= "set_target" /\ render_computes(recompute) /\ layout_ok
    THEN FALSE ELSE recompute

\* Variant: the advance is made although the total-frame query failed.
render_playback_QueryIgnored(fail, m, current_frame, step, dir, total_frame, l) ==
    IF fail \in {"ok", "get_total_frame"}
    THEN next_frame_step(m, current_frame, step, dir, 0, total_frame, l)
    ELSE <<current_frame, dir>>

\* render, lines 188-195: the advance, reached when nothing before it failed.
render_playback(fail, m, current_frame, step, dir, total_frame, l) ==
    IF fail = "ok"
    THEN next_frame_step(m, current_frame, step, dir, 0, total_frame, l)
    ELSE <<current_frame, dir>>

\* Variant: a render error unloads the plugin.
update_source_loaded_Unloads(ld, render_failed) == ld /\ ~render_failed

\* update_source, lines 115-117: a render error is printed, nothing else.
update_source_loaded(ld, render_failed) == ld

Ops(log) == {log[i].op : i \in DOMAIN log}

UpdateSource ==
    /\ ticks < MaxTicks
    /\ \E io \in (IF initialized THEN {"ok"} ELSE InitOutcomes),
          rate \in (IF initialized THEN {frame_step} ELSE Rates),
          fail \in (IF initialized /\ ~loaded THEN {"ok"} ELSE RenderOutcomes),
          layout_ok \in (IF recompute_layout THEN BOOLEAN ELSE {TRUE}) :
        LET attempt == ~initialized
            initd == IF attempt THEN initialize_initialized(io) ELSE initialized
            ld == IF attempt THEN initialize_loaded(io, loaded) ELSE loaded
            step == IF attempt THEN initialize_frame_step(io, rate, frame_step)
                    ELSE frame_step
            init_failed == attempt /\ io /= "ok"
            renders == ~init_failed /\ ld
            calls == IF renders
                     THEN render_calls(recompute_layout, fail, layout_ok)
                     ELSE << >>
            computed == renders /\ Call("compute_layout", TRUE) \in
                                      {calls[i] : i \in DOMAIN calls}
            play == IF renders
                    THEN render_playback(fail, mode, frame_number, step,
                                         direction, end_frame, loop_animation)
                    ELSE <<frame_number, direction>>
        IN  /\ initialized' = initd
            /\ frame_step' = step
            /\ loaded' = update_source_loaded(ld, renders /\ fail /= "ok")
            /\ recompute_layout' =
                   IF renders
                   THEN render_recompute(recompute_layout, fail, layout_ok)
                   ELSE recompute_layout
            /\ frame_number' = play[1]
            /\ direction' = play[2]
            /\ ticklog' = (IF attempt THEN <<Call("initialize", io = "ok")>>
                           ELSE << >>) \o calls
            /\ init_attempts' = init_attempts + (IF attempt THEN 1 ELSE 0)
            /\ init_errors' = init_errors + (IF init_failed THEN 1 ELSE 0)
            /\ computed_fit' = IF computed THEN layout_fit ELSE computed_fit
            /\ fit_set' = IF computed THEN FALSE ELSE fit_set
    /\ ticks' = ticks + 1
    /\ UNCHANGED <<sampleVars, mode, loop_animation, layout_fit, start_frame,
                   end_frame, prev, last_param>>

hostKept == <<sampleVars, frame_number, direction, frame_step, start_frame,
              end_frame, prev, initialized, loaded, ticks, ticklog,
              init_attempts, init_errors, computed_fit, last_param>>

SetMode(value) ==
    /\ set_mode(value)
    /\ UNCHANGED <<hostKept, loop_animation, layout_fit, recompute_layout,
                   fit_set>>

SetLoop(value) ==
    /\ set_loop(value)
    /\ UNCHANGED <<hostKept, mode, layout_fit, recompute_layout, fit_set>>

SetFit(value) ==
    /\ set_fit(value)
    /\ fit_set' = TRUE
    /\ UNCHANGED <<hostKept, mode, loop_animation>>

\* The plugin as the host constructs it, over an animation of end_frame
\* frames (get_total_frame); start_frame is the 0.0 of line 192.
Init ==
    /\ SampleIdle
    /\ PluginNew
    /\ mode = "Forward"
    /\ loop_animation = FALSE
    /\ frame_number = 0
    /\ direction = "Forward"
    /\ frame_step = 0
    /\ start_frame = 0
    /\ end_frame \in 1..MaxTotal
    /\ prev = NotCalled

\* The strings the host of the whole plugin sets: every mode name, two fit
\* names, and a string that is no name.
HostModes == {MODE_FORWARD, MODE_REVERSE, MODE_BOUNCE, MODE_REVERSE_BOUNCE,
              "unknown"}
HostFits == {FIT_CONTAIN, FIT_COVER, "unknown"}

Next ==
    \/ UpdateSource
    \/ \E value \in HostModes : SetMode(value)
    \/ \E value \in BOOLEAN : SetLoop(value)
    \/ \E value \in HostFits : SetFit(value)

Spec == Init /\ [][Next]_vars

----------------------------------------------------------------------------
\* Claims about the stateless time-sampling function (SampleSpec).

\* r is t mod d (d > 0, t >= 0): the remainder of t by d, stated by its
\* defining property.
IsMod(r, t, d) == r \in 0..(d - 1) /\ \E k \in 0..t : t = k * d + r

AllSampled == \A m \in Modes : Sampled(m)

\* C1: whenever duration <= 0, next_frame returns exactly 0 for every mode,
\* every requested time (negative ones too) and both loop values.
C1_NonPositiveDurationIsZero ==
    duration <= 0 => \A m \in DOMAIN result : result[m] = 0

C1_Witness ==
    AllSampled /\ duration < 0 /\ time > 0 /\ loop_flag

\* C2: Forward, d > 0, t >= 0: without loop the result is min(t, d) (so d at
\* t = d); with loop it is t mod d, and the result at t equals the result
\* at t + d (period d).
C2_Forward ==
    (Sampled("Forward") /\ duration > 0 /\ time >= 0) =>
        LET r == result["Forward"]
        IN  /\ ~loop_flag =>
                /\ r <= time /\ r <= duration /\ r \in {time, duration}
                /\ (time = duration => r = duration)
            /\ loop_flag =>
                /\ IsMod(r, time, duration)
                /\ r = next_frame_time("Forward", time + duration, duration, TRUE)

C2_Witness ==
    /\ Sampled("Forward") /\ loop_flag
    /\ duration > 1 /\ time > duration /\ result["Forward"] > 0

\* C3: Reverse, d > 0, t >= 0: without loop the result is max(d - t, 0);
\* with loop it is d - (t mod d), so every multiple of d (0 and d included)
\* resolves to d, not 0.
C3_Reverse ==
    (Sampled("Reverse") /\ duration > 0 /\ time >= 0) =>
        LET r == result["Reverse"]
        IN  /\ ~loop_flag =>
                r >= 0 /\ r >= duration - time /\ r \in {0, duration - time}
            /\ loop_flag =>
                /\ IsMod(duration - r, time, duration)
                /\ ((\E k \in 0..time : time = k * duration) => r = duration)

C3_Witness ==
    /\ Sampled("Reverse") /\ loop_flag
    /\ duration > 1 /\ time = 2 * duration /\ result["Reverse"] = duration

\* C4: Bounce, d > 0, t >= 0: without loop the result is t for t <= d,
\* 2d - t for d < t <= 2d and 0 for t > 2d; with loop it is c for c <= d and
\* 2d - c otherwise, where c = t mod 2d.
C4_Bounce ==
    (Sampled("Bounce") /\ duration > 0 /\ time >= 0) =>
        LET r == result["Bounce"]
            d == duration
        IN  /\ ~loop_flag =>
                /\ time <= d => r = time
                /\ (d < time /\ time <= 2 * d) => r = 2 * d - time
                /\ time > 2 * d => r = 0
            /\ loop_flag =>
                \E c \in 0..(2 * d - 1) :
                    /\ IsMod(c, time, 2 * d)
                    /\ r = IF c <= d THEN c ELSE 2 * d - c

C4_Witness ==
    /\ Sampled("Bounce") /\ ~loop_flag
    /\ duration > 0 /\ time > 2 * duration /\ result["Bounce"] = 0

\* C5: ReverseBounce is Bounce mirrored: for d > 0, t >= 0 and both loop
\* values the ReverseBounce result is d minus the Bounce result, also for
\* t > 2d without loop, where ReverseBounce stays at d.
C5_ReverseBounceMirrorsBounce ==
    (Sampled("Bounce") /\ Sampled("ReverseBounce") /\ duration > 0 /\ time >= 0)
        => result["ReverseBounce"] = duration - result["Bounce"]

C5_Witness ==
    /\ Sampled("Bounce") /\ Sampled("ReverseBounce") /\ ~loop_flag
    /\ duration > 0 /\ time > 2 * duration /\ result["ReverseBounce"] = duration

\* C6: Bounce symmetry: for d > 0 and 0 <= t <= 2d, without loop, the result
\* at t equals the result at 2d - t.
C6_BounceSymmetry ==
    (Sampled("Bounce") /\ ~loop_flag /\ duration > 0
        /\ 0 <= time /\ time <= 2 * duration)
        => result["Bounce"] =
               next_frame_time("Bounce", 2 * duration - time, duration, FALSE)

C6_Witness ==
    /\ Sampled("Bounce") /\ ~loop_flag
    /\ duration > 1 /\ duration < time /\ time < 2 * duration
    /\ result["Bounce"] > 0

\* C22: the stateless result is always inside the animation: for every
\* mode, both loop values, every d > 0 and every t >= 0, the value returned
\* satisfies 0 <= result <= d.
C22_ResultInsideAnimation ==
    (duration > 0 /\ time >= 0) =>
        \A m \in DOMAIN result : 0 <= result[m] /\ result[m] <= duration

C22_Witness ==
    /\ AllSampled /\ ~loop_flag /\ duration > 1 /\ time > 2 * duration
    /\ result["Forward"] = duration /\ result["Reverse"] = 0
    /\ result["Bounce"] = 0 /\ result["ReverseBounce"] = duration

\* C23: stateless Reverse is Forward mirrored: for every d > 0, every
\* t >= 0 and both loop values, the Reverse result equals d minus the
\* Forward result.
C23_ReverseMirrorsForward ==
    (Sampled("Forward") /\ Sampled("Reverse") /\ duration > 0 /\ time >= 0)
        => result["Reverse"] = duration - result["Forward"]

C23_Witness ==
    /\ Sampled("Forward") /\ Sampled("Reverse") /\ loop_flag
    /\ duration > 1 /\ time = 2 * duration
    /\ result["Forward"] = 0 /\ result["Reverse"] = duration

----------------------------------------------------------------------------
\* Claims about the frame-stepping function (StepSpec, RunSpec).

C7_Pre == mode = "Forward" /\ ~loop_animation /\ frame_step > 0

\* What every advance of a Forward, no-loop run leaves: a frame not below the
\* one it started from and not above end_frame, and the same state again
\* once the frame is end_frame.
C7_Safe ==
    C7_Pre =>
        /\ frame_number <= end_frame
        /\ prev.called =>
            /\ frame_number >= prev.frame
            /\ prev.frame = end_frame =>
                (frame_number = end_frame /\ direction = prev.direction)

\* C7: Forward mode without loop, started from (start_frame, Forward) with
\* frame_step > 0: the frames of successive advances never decrease, never
\* exceed end_frame, reach end_frame, and an advance at end_frame returns
\* the state it was given.
C7_ForwardNoLoopPinsAtEnd ==
    /\ []C7_Safe
    /\ (C7_Pre ~> (frame_number = end_frame))

C7_Witness ==
    /\ C7_Pre /\ start_frame + frame_step < end_frame
    /\ prev.called /\ prev.frame = end_frame
    /\ frame_number = end_frame /\ direction = "Forward"

\* C8: Reverse mode, for every input state: at next <= start_frame the
\* result is (end_frame, Reverse) with loop and (start_frame, Reverse)
\* without; otherwise it is (next, Reverse).  The returned direction is
\* always Reverse.
C8_ReverseTransition ==
    (prev.called /\ mode = "Reverse") =>
        <<frame_number, direction>> =
            IF PrevCandidate <= start_frame
            THEN IF loop_animation THEN <<end_frame, "Reverse">>
                 ELSE <<start_frame, "Reverse">>
            ELSE <<PrevCandidate, "Reverse">>

\* C9: Bounce mode: at direction Forward and next >= end_frame the result is
\* (end_frame, Reverse) for both loop values; at direction Reverse and
\* next <= start_frame it is (start_frame, Forward) with loop and
\* (start_frame, Reverse) without; everywhere else the loop flag does not
\* change the result.
C9_BounceTurnsAtEnd ==
    (prev.called /\ mode = "Bounce") =>
        LET lower == prev.direction = "Reverse" /\ PrevCandidate <= start_frame
            upper == prev.direction = "Forward" /\ PrevCandidate >= end_frame
            now == <<frame_number, direction>>
        IN  /\ upper => now = <<end_frame, "Reverse">>
            /\ lower => now = <<start_frame,
                                IF loop_animation THEN "Forward" ELSE "Reverse">>
            /\ ~lower => now = next_frame_step("Bounce", prev.frame, frame_step,
                                               prev.direction, start_frame,
                                               end_frame, ~loop_animation)

C9_Witness ==
    /\ prev.called /\ mode = "Bounce" /\ loop_animation
    /\ prev.direction = "Forward" /\ prev.frame < end_frame
    /\ PrevCandidate > end_frame /\ start_frame < end_frame
    /\ frame_number = end_frame /\ direction = "Reverse"

\* C10: ReverseBounce mode: at direction Reverse and next <= start_frame the
\* result is (start_frame, Forward) for both loop values; at direction
\* Forward and next >= end_frame it is (end_frame, Reverse) with loop and
\* (end_frame, Forward) without; in every other case it is
\* (next, direction).
C10_ReverseBounceTransition ==
    (prev.called /\ mode = "ReverseBounce") =>
        LET lower == prev.direction = "Reverse" /\ PrevCandidate <= start_frame
            upper == prev.direction = "Forward" /\ PrevCandidate >= end_frame
            now == <<frame_number, direction>>
        IN  /\ lower => now = <<start_frame, "Forward">>
            /\ upper => now = <<end_frame,
                                IF loop_animation THEN "Reverse" ELSE "Forward">>
            /\ (~lower /\ ~upper) => now = <<PrevCandidate, prev.direction>>

C10_Witness ==
    /\ prev.called /\ mode = "ReverseBounce" /\ ~loop_animation
    /\ prev.direction = "Reverse" /\ prev.frame > start_frame
    /\ PrevCandidate < start_frame /\ start_frame < end_frame
    /\ frame_number = start_frame /\ direction = "Forward"

----------------------------------------------------------------------------
\* Claims about the two disciplines together (AgreeSpec).

\* C11: for every mode and both loop values, with start_frame = 0,
\* end_frame = d > 0 and a step s > 0 dividing d, the frame held after n
\* advances from (start_frame, Forward) equals the stateless result at time
\* n * s, for every n >= 0.
C11_DisciplinesAgree ==
    frame_number = result[mode]

\* The same statement for the two modes that start at the first frame.
C11_ForwardAndBounceAgree ==
    mode \in {"Forward", "Bounce"} => frame_number = result[mode]

----------------------------------------------------------------------------
\* Claims about a Bounce run (RunSpec).

C20_Pre ==
    mode = "Bounce" /\ ~loop_animation /\ frame_step > 0
        /\ start_frame < end_frame

C20_Parked == frame_number = start_frame /\ direction = "Reverse"

\* C20: Bounce mode without loop, started from (start_frame, Forward) with
\* frame_step > 0 and start_frame < end_frame: the run reaches end_frame and
\* turns to Reverse, then reaches (start_frame, Reverse), and every advance
\* from there returns (start_frame, Reverse): it stays parked for good.
C20_BounceNoLoopParks ==
    /\ (C20_Pre /\ ~prev.called) ~> (frame_number = end_frame /\ direction = "Reverse")
    /\ (C20_Pre /\ frame_number = end_frame /\ direction = "Reverse") ~> C20_Parked
    /\ [](C20_Pre => <>[]C20_Parked)
    /\ []((C20_Pre /\ prev.called /\ prev.frame = start_frame
              /\ prev.direction = "Reverse") => C20_Parked)

C20_Witness ==
    /\ C20_Pre /\ start_frame + frame_step < end_frame
    /\ prev.called /\ prev.frame = start_frame /\ prev.direction = "Reverse"
    /\ C20_Parked

----------------------------------------------------------------------------
\* Claims about the parameter names (ParseSpec).

\* C16: name parsing is total and never an error: each of the four mode
\* names and six fit names maps to its own variant, and every other string
\* maps to the default, Forward for the mode and Contain for the fit.
C16_ParsingIsTotal ==
    LET v == last_param.value
    IN  /\ last_param.name = "mode" =>
            /\ mode \in Modes
            /\ v = "forward" => mode = "Forward"
            /\ v = "reverse" => mode = "Reverse"
            /\ v = "bounce" => mode = "Bounce"
            /\ v = "reverse-bounce" => mode = "ReverseBounce"
            /\ v \notin {"forward", "reverse", "bounce", "reverse-bounce"}
                   => mode = "Forward"
        /\ last_param.name = "fit" =>
            /\ layout_fit \in Fits
            /\ v = "contain" => layout_fit = "Contain"
            /\ v = "fill" => layout_fit = "Fill"
            /\ v = "cover" => layout_fit = "Cover"
            /\ v = "fit-width" => layout_fit = "FitWidth"
            /\ v = "fit-height" => layout_fit = "FitHeight"
            /\ v = "none" => layout_fit = "None"
            /\ v \notin {"contain", "fill", "cover", "fit-width", "fit-height",
                          "none"} => layout_fit = "Contain"

C16_Witness ==
    /\ last_param.name = "fit" /\ last_param.value = "fit_width"
    /\ last_param.old = "Cover" /\ layout_fit = "Contain"
    /\ mode = "ReverseBounce"

\* C17: names round-trip: parsing the name produced for a variant yields the
\* variant again, for every mode and every fit (so the names of two
\* different variants differ).
C17_NamesRoundTrip ==
    last_param.echo =>
        /\ last_param.name = "mode" => mode = last_param.old
        /\ last_param.name = "fit" => layout_fit = last_param.old

C17_Witness ==
    /\ last_param.echo /\ last_param.name = "mode"
    /\ last_param.old = "ReverseBounce" /\ mode = "ReverseBounce"
    /\ layout_fit = "FitHeight"

----------------------------------------------------------------------------
\* Claims about the plugin (Spec).

LogEntries == {ticklog[i] : i \in DOMAIN ticklog}

\* C12: if initialization fails on the first update_source call, then on
\* every later call, whatever parameters are set in between, no set_frame
\* and no renderer operation is performed, initialization is not attempted
\* again and no further initialization error is reported.
C12_FailedInitStaysInert ==
    init_errors >= 1 =>
        /\ init_attempts = 1
        /\ init_errors = 1
        /\ ~loaded
        /\ Ops(ticklog) \subseteq {"initialize"}
        /\ ticks >= 2 => ticklog = << >>

C12_Witness ==
    /\ init_errors = 1 /\ ticks >= 3 /\ ticklog = << >>
    /\ mode = "Bounce" /\ loop_animation /\ layout_fit = "Cover"

\* C13: within every tick the renderer is driven in the order update, draw,
\* sync: draw only right after an update that succeeded, sync only right
\* after a draw that succeeded, each at most once.
C13_UpdateDrawSyncInOrder ==
    \A i \in DOMAIN ticklog :
        /\ ticklog[i].op = "draw" =>
               (i > 1 /\ ticklog[i - 1] = Call("update", TRUE))
        /\ ticklog[i].op = "sync" =>
               (i > 1 /\ ticklog[i - 1] = Call("draw", TRUE))
        /\ \A j \in DOMAIN ticklog :
               (j /= i /\ ticklog[i].op \in RendererOps)
                   => ticklog[j].op /= ticklog[i].op

C13_Witness ==
    /\ Call("update", TRUE) \in LogEntries
    /\ Call("draw", FALSE) \in LogEntries
    /\ "sync" \notin Ops(ticklog)

\* The last update_source call met a renderer failure.
TickFailed ==
    \E i \in DOMAIN ticklog :
        ticklog[i].op \in RendererOps /\ ~ticklog[i].ok

\* C14: a renderer failure (set_target, update, draw or sync) on one tick of
\* a loaded plugin is contained to that tick: the plugin stays loaded, and
\* the following update_source call renders again from set_target on.
C14_RenderFailureContained ==
    /\ [](TickFailed => (initialized /\ loaded))
    /\ [][(TickFailed /\ ticks' = ticks + 1) =>
             (loaded' /\ ticklog' /= << >> /\ ticklog'[1].op = "set_target")]_vars

C14_Witness ==
    /\ TickFailed /\ loaded /\ ticks >= 2 /\ ticks < MaxTicks
    /\ "initialize" \notin Ops(ticklog)
    /\ Call("sync", FALSE) \in LogEntries

\* A step that is an update_source call in which compute_layout is invoked.
TickComputesLayout ==
    ticks' = ticks + 1 /\ "compute_layout" \in Ops(ticklog')

\* C15: on any render tick compute_layout is invoked only if no layout
\* computation has succeeded yet or the fit policy differs from the one
\* used at the last successful computation.
C15_LayoutCachedByPolicy ==
    [][TickComputesLayout =>
          (computed_fit = NotComputed \/ layout_fit /= computed_fit)]_vars

\* C15, amended: on any render tick compute_layout is invoked only if no
\* layout computation has succeeded yet or the fit parameter has been set,
\* to whatever value, since the last successful computation.
C15_LayoutCachedByFlag ==
    [][TickComputesLayout => (computed_fit = NotComputed \/ fit_set)]_vars

C15_Witness ==
    /\ ticks >= 2 /\ "initialize" \notin Ops(ticklog)
    /\ Call("compute_layout", TRUE) \in LogEntries
    /\ computed_fit = "Cover" /\ ~fit_set /\ ~recompute_layout

\* C19: with frame_step > 0 and total_frames > 0, in every state reachable
\* by render ticks and parameter changes, 0 <= frame_number <= total_frames.
C19_FrameInRange ==
    (frame_step > 0 /\ end_frame > 0) =>
        (0 <= frame_number /\ frame_number <= end_frame)

\* The update_source call just made ran render and one of set_target,
\* update, draw, sync or the total-frame query returned an error.
RenderFailed(log) ==
    \E i \in DOMAIN log :
        log[i].op \in RendererOps \cup {"get_total_frame"} /\ ~log[i].ok

\* C21: a render tick that fails (set_target, update, draw, sync or the
\* total-frame query returns an error) leaves frame_number and direction as
\* they were before it; every tick performs at most one advance, and only a
\* tick whose render ran to the end performs one.
C21_FailedTickKeepsPlayback ==
    /\ [][(ticks' = ticks + 1 /\ RenderFailed(ticklog')) =>
             (frame_number' = frame_number /\ direction' = direction)]_vars
    /\ [][ticks' = ticks + 1 =>
             \/ frame_number' = frame_number /\ direction' = direction
             \/ /\ ticklog' /= << >>
                /\ ticklog'[Len(ticklog')] = Call("get_total_frame", TRUE)
                /\ <<frame_number', direction'>> =
                       next_frame_step(mode, frame_number, frame_step',
                                       direction, 0, end_frame,
                                       loop_animation)]_vars

C21_Witness ==
    /\ ticks >= 2 /\ "initialize" \notin Ops(ticklog)
    /\ Call("get_total_frame", FALSE) \in LogEntries
    /\ frame_number > 0 /\ frame_number < end_frame
    /\ mode = "Bounce" /\ direction = "Forward"

====
